---- MODULE Spec2Model ----
(***************************************************************************)
(* Model of qat.purr.compiler.runtime (QuantumRuntime.execute, the result  *)
(* transformation pipeline, _binary_count) and of the target lists of      *)
(* qat.purr.compiler.instructions (QuantumInstruction, Synchronize,        *)
(* PhaseReset), its name generator (is_generated_name,                     *)
(* build_generated_name) and the construction of Acquire and Sweep.        *)
(*                                                                         *)
(* Python values are tagged records:                                       *)
(*   [kind |-> "none"]                      None                           *)
(*   [kind |-> "num", v |-> n]              an int                         *)
(*   [kind |-> "str", s |-> "01"]           a str                          *)
(*   [kind |-> "list", items |-> <<..>>]    a list                         *)
(*   [kind |-> "ndarray", items |-> <<..>>] a numpy array                  *)
(*   [kind |-> "dict", counts |-> f]        a dict of str -> int           *)
(*   [kind |-> "map", entries |-> <<..>>]   a dict of name -> value, in    *)
(*                                          insertion order                *)
(*   [kind |-> "raise", err |-> "..."]      an exception leaving the call  *)
(***************************************************************************)
EXTENDS Integers, Sequences, FiniteSets, TLC

VARIABLES
    engine,         \* QuantumRuntime.engine: None or the attached engine
    metrics,        \* the metric writes of the runtime, in order
    calls,          \* number of QuantumRuntime.execute calls made so far
    lastExec,       \* the last QuantumRuntime.execute call: inputs, engine calls, outcome
    pending,        \* the arguments of the direct call of a pure function still to be made
    lastCall,       \* the direct call of _transform_results or _binary_count made
    insts,          \* the Synchronize and PhaseReset instructions kept: [cls, quantum_targets]
    nops,           \* number of operations made on instructions
    lastOp,         \* the last operation on the instructions
    shared_names,   \* the existing_names set the callers share between name generations
    returned        \* the names build_generated_name returned for that set, in order

vars == <<engine, metrics, calls, lastExec, pending, lastCall, insts, nops, lastOp,
          shared_names, returned>>

----------------------------------------------------------------------------
(* Bounds *)

MaxRepeats == 3     \* repeats is drawn from 0..MaxRepeats (and None, and the examples)
MaxShots == 2       \* generated per-shot lists have at most MaxShots items
MaxVars == 2        \* result mappings have at most MaxVars variables
MaxInstr == 2       \* instruction sequences have at most MaxInstr items
MaxCalls == 2       \* execute calls per behaviour
MaxOps == 3         \* operations on instructions per behaviour
MaxRand == 1        \* np.random.randint draws are taken from 0..MaxRand
MaxBuilds == 3      \* name generations and Acquire or Sweep constructions per behaviour
MaxSweepValues == 2 \* a Sweep is given at most MaxSweepValues SweepValues
MaxSweepLen == 2    \* a SweepValue holds at most MaxSweepLen values

----------------------------------------------------------------------------
(* Python values *)

None == [kind |-> "none"]
Num(n) == [kind |-> "num", v |-> n]
Str(s) == [kind |-> "str", s |-> s]
Lst(items) == [kind |-> "list", items |-> items]
NdArray(items) == [kind |-> "ndarray", items |-> items]
Dict(f) == [kind |-> "dict", counts |-> f]
Map(entries) == [kind |-> "map", entries |-> entries]
Raise(err) == [kind |-> "raise", err |-> err]

IsSeqLike(v) == v.kind \in {"list", "ndarray"}

SeqsUpTo(S, n) == UNION {[1..k -> S] : k \in 0..n}

RECURSIVE Join(_)
\* ''.join(strs)
Join(strs) == IF strs = <<>> THEN "" ELSE Head(strs) \o Join(Tail(strs))

\* str(n) of an int
PyStr(n) == ToString(n)

----------------------------------------------------------------------------
(* instructions.py: is_generated_name *)

GeneratedTag == "generated_name_"

IsDigit(c) == c \in {"0", "1", "2", "3", "4", "5", "6", "7", "8", "9"}

CharAt(s, i) == SubSeq(s, i, i)

\* re.match(".*generated_name_[0-9]*$", name): "." matches no newline, and "$"
\* matches at the end of the string or right before a final newline.
is_generated_name(name) ==
    LET n == Len(name)
        t == Len(GeneratedTag)
        ends == {n} \cup (IF n > 0 /\ CharAt(name, n) = "\n" THEN {n - 1} ELSE {})
    IN  \E i \in 1..(n - t + 1) :
            /\ SubSeq(name, i, i + t - 1) = GeneratedTag
            /\ \A j \in 1..(i - 1) : CharAt(name, j) # "\n"
            /\ \E e \in ends :
                   /\ e >= i + t - 1
                   /\ \A j \in (i + t)..e : IsDigit(CharAt(name, j))

----------------------------------------------------------------------------
(* runtime.py: _binary_count *)

RECURSIVE _binary(_)
\* execution._binary: shape-preserving map of raw values to 0/1
_binary(v) ==
    IF v.kind = "num" THEN Num(IF v.v = 0 THEN 0 ELSE 1)
    ELSE Lst([i \in 1..Len(v.items) |-> _binary(v.items[i])])

RECURSIVE flatten(_)
\* _binary_count.flatten: depth-first concatenation of the leaves' str()
flatten(res) ==
    IF IsSeqLike(res)
    THEN Join([i \in 1..Len(res.items) |-> flatten(res.items[i])])
    ELSE PyStr(res.v)

\* get_tuple raises IndexError when a list member is shorter than index + 1
get_tuple_raises(res, index) ==
    \E k \in 1..Len(res.items) :
        IsSeqLike(res.items[k]) /\ Len(res.items[k].items) <= index

\* _binary_count.get_tuple (index is 0-based, as in the source)
get_tuple(res, index) ==
    Lst([k \in 1..Len(res.items) |->
            IF IsSeqLike(res.items[k])
            THEN res.items[k].items[index + 1]
            ELSE res.items[k]])

\* "If our results are a single qubit then pretend to be a register of one."
normalise_register(binary_results, repeats) ==
    IF /\ Len(binary_results.items) > 0
       /\ binary_results.items[1].kind = "num"
       /\ Len(binary_results.items) = repeats
    THEN Lst(<<binary_results>>)
    ELSE binary_results

\* the key of shot `index`
shot_key(register, index) == flatten(get_tuple(register, index))

\* a tally that stops one shot short
_binary_count_short(results_list, repeats) ==
    LET binary_results == normalise_register(_binary(results_list), repeats)
        shots == 0..(repeats - 2)
    IN  IF \E i \in shots : get_tuple_raises(binary_results, i)
        THEN Raise("IndexError")
        ELSE LET key == [i \in shots |-> shot_key(binary_results, i)]
             IN  Dict([k \in {key[i] : i \in shots} |->
                        Cardinality({i \in shots : key[i] = k})])

_binary_count(results_list, repeats) ==
    LET binary_results == normalise_register(_binary(results_list), repeats)
        shots == 0..(repeats - 1)
    IN  IF \E i \in shots : get_tuple_raises(binary_results, i)
        THEN Raise("IndexError")
        ELSE LET key == [i \in shots |-> shot_key(binary_results, i)]
             IN  Dict([k \in {key[i] : i \in shots} |->
                        Cardinality({i \in shots : key[i] = k})])

----------------------------------------------------------------------------
(* runtime.py: QuantumRuntime._transform_results *)

BinaryCount == "BinaryCount"
SquashBinaryResultArrays == "SquashBinaryResultArrays"
DynamicStructureReturn == "DynamicStructureReturn"

ResultsFormatting == {BinaryCount, SquashBinaryResultArrays, DynamicStructureReturn}

\* format_flags: a flag set, or None when the caller supplies no flags
NoFlags == None
Flags(S) == [kind |-> "flags", set |-> S]

DefaultRepeats == 1000

Keys(m) == [i \in 1..Len(m.entries) |-> m.entries[i].key]
Values(m) == [i \in 1..Len(m.entries) |-> m.entries[i].value]

\* {key: f(val) for key, val in results.items()}; an exception raised by f
\* on some value leaves the comprehension
MapValues(m, f(_)) ==
    LET out == [i \in 1..Len(m.entries) |-> f(m.entries[i].value)]
    IN  IF \E i \in 1..Len(out) : out[i].kind = "raise"
        THEN out[CHOOSE i \in 1..Len(out) :
                    /\ out[i].kind = "raise"
                    /\ \A j \in 1..(i - 1) : out[j].kind # "raise"]
        ELSE Map([i \in 1..Len(out) |-> [key |-> m.entries[i].key, value |-> out[i]]])

\* a simplification that never unwraps a single value
simplify_results_no_unwrap(simplify_target) ==
    IF \A i \in 1..Len(simplify_target.entries) :
           is_generated_name(simplify_target.entries[i].key)
    THEN Lst(Values(simplify_target))
    ELSE simplify_target

simplify_results(simplify_target) ==
    IF \A i \in 1..Len(simplify_target.entries) :
           is_generated_name(simplify_target.entries[i].key)
    THEN IF Len(simplify_target.entries) = 1
         THEN Values(simplify_target)[1]
         ELSE LET squashed_results == Values(simplify_target)
              IN  IF \A i \in 1..Len(squashed_results) :
                         squashed_results[i].kind = "ndarray"
                  THEN NdArray(squashed_results)
                  ELSE Lst(squashed_results)
    ELSE simplify_target

squash_binary(value) ==
    IF value.kind = "num" THEN Str(PyStr(value.v))
    ELSE IF value.kind = "none" THEN Raise("TypeError")
    ELSE IF value.kind = "dict"
         THEN (IF DOMAIN value.counts = {} THEN Str("") ELSE None)
    ELSE IF value.kind = "str"
         THEN (IF value.s = "" THEN Str("") ELSE None)
    ELSE IF \A i \in 1..Len(value.items) : value.items[i].kind = "num"
         THEN (IF value.kind = "ndarray" /\ Len(value.items) > 0
               THEN None
               ELSE Str(Join([i \in 1..Len(value.items) |-> PyStr(value.items[i].v)])))
    ELSE None

default_flags(format_flags) ==
    IF format_flags = NoFlags THEN {DynamicStructureReturn} ELSE format_flags.set

default_repeats(repeats) ==
    IF repeats = None THEN DefaultRepeats ELSE repeats.v

\* The running value of the local `results`, with the stages that have run:
\* [cur |-> value, stages |-> <<[stage, input, output], ...>>].
\* A stage runs when its flag is set and no earlier stage has raised.
Ran(acc, flag, output) ==
    [cur |-> output,
     stages |-> Append(acc.stages, [stage |-> flag, input |-> acc.cur, output |-> output])]

binary_count_stage(acc, format_flags, repeats) ==
    IF acc.cur.kind # "raise" /\ BinaryCount \in format_flags
    THEN LET count(val) == _binary_count(val, repeats)
         IN  Ran(acc, BinaryCount, MapValues(acc.cur, count))
    ELSE acc

\* a squash stage that runs whatever the flags
squash_stage_ungated(acc, format_flags) ==
    IF acc.cur.kind # "raise"
    THEN Ran(acc, SquashBinaryResultArrays, MapValues(acc.cur, squash_binary))
    ELSE acc

squash_stage(acc, format_flags) ==
    IF acc.cur.kind # "raise" /\ SquashBinaryResultArrays \in format_flags
    THEN Ran(acc, SquashBinaryResultArrays, MapValues(acc.cur, squash_binary))
    ELSE acc

simplify_stage(acc, format_flags) ==
    IF acc.cur.kind # "raise" /\ DynamicStructureReturn \in format_flags
    THEN Ran(acc, DynamicStructureReturn, simplify_results(acc.cur))
    ELSE acc

\* the stages in the order of the source's three `if ... in format_flags` blocks
run_stages(results, flags, reps) ==
    simplify_stage(
        squash_stage(
            binary_count_stage([cur |-> results, stages |-> <<>>], flags, reps),
            flags),
        flags)

\* the transformation without the early return on an empty mapping
_transform_results_no_early_return(results, format_flags, repeats) ==
    LET acc == run_stages(results, default_flags(format_flags), default_repeats(repeats))
    IN  [out |-> acc.cur, stages |-> acc.stages]

\* [out |-> the returned value (or the exception), stages |-> the stages run]
_transform_results(results, format_flags, repeats) ==
    IF Len(results.entries) = 0
    THEN [out |-> Lst(<<>>), stages |-> <<>>]
    ELSE LET acc == run_stages(results, default_flags(format_flags),
                               default_repeats(repeats))
         IN  [out |-> acc.cur, stages |-> acc.stages]

----------------------------------------------------------------------------
(* Inputs of the result transformation *)

Bits == {Num(0), Num(1)}

FlatLists == {Lst(s) : s \in SeqsUpTo(Bits, MaxShots)}

\* registers: lists whose members are per-channel lists or broadcast scalars
Registers == {Lst(s) : s \in SeqsUpTo(FlatLists \cup Bits, 2)}

RepeatChoices == {None} \cup {Num(r) : r \in 0..MaxRepeats}

Bit4(a, b, c, d) == Lst(<<Num(a), Num(b), Num(c), Num(d)>>)
Bit2(a, b) == Lst(<<Num(a), Num(b)>>)

\* the shot-major list of the documentation, and the same shots channel-major
ShotMajorExample == Lst(<<Bit2(0, 1), Bit2(1, 0), Bit2(0, 0), Bit2(1, 1)>>)
ChannelMajorExample == Lst(<<Bit4(0, 1, 0, 1), Bit4(1, 0, 0, 1)>>)
\* the number of shots of the example
ExampleRepeats == Len(ShotMajorExample.items)

CountCalls ==
    {<<v, r>> : v \in FlatLists \cup Registers, r \in 0..MaxRepeats}
        \cup {<<ShotMajorExample, ExampleRepeats>>,
              <<ChannelMajorExample, ExampleRepeats>>,
              <<Bit2(0, 1), DefaultRepeats>>}

Names == {"generated_name_1", "q0_generated_name_", "q0", "generated_name_1x"}

TransformValues ==
    {Num(1), Bit2(0, 1), Lst(<<Bit2(0, 1), Bit2(1, 1)>>), NdArray(<<Num(0)>>)}

Entry(k, v) == [key |-> k, value |-> v]

\* dicts: the keys of a mapping are pairwise distinct
ResultMaps ==
    {Map(e) : e \in {s \in SeqsUpTo({Entry(k, v) : k \in Names, v \in TransformValues},
                                    MaxVars) :
                        \A i, j \in 1..Len(s) : s[i].key = s[j].key => i = j}}

FlagChoices == {NoFlags} \cup {Flags(S) : S \in SUBSET ResultsFormatting}

\* execution._binary is given sequences; a bare scalar is never counted
Countable(m) == \A i \in 1..Len(m.entries) : m.entries[i].value.kind # "num"

TransformCalls ==
    {c \in ({<<m, f, r>> : m \in ResultMaps, f \in FlagChoices,
                           r \in {Num(n) : n \in 0..MaxRepeats}}
            \cup {<<m, f, None>> : m \in {x \in ResultMaps : Len(x.entries) <= 1},
                                   f \in FlagChoices}
            \cup {<<Map(<<Entry("generated_name_1", Bit4(0, 1, 0, 1))>>), f, Num(ExampleRepeats)>> :
                     f \in FlagChoices}) :
        BinaryCount \in default_flags(c[2]) => Countable(c[1])}

----------------------------------------------------------------------------
(* The execution engine attached to a runtime.  An engine is a stub          *)
(* [kind |-> "engine", optimize, validate, execute] whose fields fix how its *)
(* three operations answer; a runtime without an engine holds None.          *)

OptimizeBehaviours == {"raise", "identity", "drop_first", "append", "empty"}
ValidateBehaviours == {"return", "raise"}

EngineResults ==
    {Raise("ExecuteError"),
     Map(<<>>),
     Map(<<Entry("generated_name_1", Bit2(0, 1))>>)}

Engines ==
    {[kind |-> "engine", optimize |-> o, validate |-> v, execute |-> e] :
        o \in OptimizeBehaviours, v \in ValidateBehaviours, e \in EngineResults}

\* engine.optimize(instructions): a sequence of instructions, or it raises
EngineOptimize(eng, instructions) ==
    CASE eng.optimize = "raise" -> Raise("OptimizeError")
      [] eng.optimize = "identity" -> instructions
      [] eng.optimize = "drop_first" -> Lst(Tail(instructions.items))
      [] eng.optimize = "append" -> Lst(Append(instructions.items, "optimized"))
      [] eng.optimize = "empty" -> Lst(<<>>)

\* engine.validate(instructions): returns None, or raises
EngineValidate(eng, instructions) ==
    IF eng.validate = "raise" THEN Raise("ValidationError") ELSE None

\* engine.execute(instructions): the raw results, or it raises
EngineExecute(eng, instructions) == eng.execute

----------------------------------------------------------------------------
(* runtime.py: QuantumRuntime.execute *)

OptimizedInstructionCount == "OptimizedInstructionCount"

NoEngineError == Raise("No execution engine available.")
NoInstructionsError ==
    Raise("No instructions passed to the process or stored for execution.")

Builder(instructions) == [kind |-> "builder", instructions |-> instructions]

\* bool(x) of a member of the instruction list: instructions are truthy, None is not
Truthy(x) == x # "None"

\* any(instructions)
any_truthy(items) == \E i \in 1..Len(items) : Truthy(items[i])

\* `if isinstance(instructions, InstructionBuilder): instructions = instructions.instructions`
resolve_instructions(instructions) ==
    IF instructions.kind = "builder" THEN instructions.instructions ELSE instructions

\* a check that only rejects an absent sequence
no_instructions_none_only(instructions) == instructions = None

\* `instructions is None or not any(instructions)`
no_instructions(instructions) ==
    instructions = None \/ ~any_truthy(instructions.items)

EngineCall(op, arg, ret) == [op |-> op, arg |-> arg, ret |-> ret]

\* MetricsMixin.record_metric(metric, value): one write to the metrics sink
record_metric(metric, value) == [op |-> "record_metric", metric |-> metric, value |-> value]

\* the call with validation given the sequence as passed, not as optimized
execute_unoptimized(eng, instructions, results_format, repeats) ==
    IF eng = None
    THEN [events |-> <<>>, out |-> NoEngineError]
    ELSE
    LET resolved == resolve_instructions(instructions)
    IN  IF no_instructions(resolved)
        THEN [events |-> <<>>, out |-> NoInstructionsError]
        ELSE
        LET optimized == EngineOptimize(eng, resolved)
            e1 == <<EngineCall("optimize", resolved, optimized)>>
        IN  IF optimized.kind = "raise"
            THEN [events |-> e1, out |-> optimized]
            ELSE
            LET validated == EngineValidate(eng, resolved)
                e2 == Append(e1, EngineCall("validate", resolved, validated))
            IN  IF validated.kind = "raise"
                THEN [events |-> e2, out |-> validated]
                ELSE
                LET e3 == Append(e2, record_metric(OptimizedInstructionCount,
                                                   Len(optimized.items)))
                    results == EngineExecute(eng, optimized)
                    e4 == Append(e3, EngineCall("execute", optimized, results))
                IN  IF results.kind = "raise"
                    THEN [events |-> e4, out |-> results]
                    ELSE [events |-> e4,
                          out |-> _transform_results(results, results_format, repeats).out]

\* the call with the metric written before validation
execute_metric_first(eng, instructions, results_format, repeats) ==
    IF eng = None
    THEN [events |-> <<>>, out |-> NoEngineError]
    ELSE
    LET resolved == resolve_instructions(instructions)
    IN  IF no_instructions(resolved)
        THEN [events |-> <<>>, out |-> NoInstructionsError]
        ELSE
        LET optimized == EngineOptimize(eng, resolved)
            e1 == <<EngineCall("optimize", resolved, optimized)>>
        IN  IF optimized.kind = "raise"
            THEN [events |-> e1, out |-> optimized]
            ELSE
            LET validated == EngineValidate(eng, optimized)
                e2 == Append(Append(e1, record_metric(OptimizedInstructionCount,
                                                      Len(optimized.items))),
                             EngineCall("validate", optimized, validated))
            IN  IF validated.kind = "raise"
                THEN [events |-> e2, out |-> validated]
                ELSE
                LET e3 == e2
                    results == EngineExecute(eng, optimized)
                    e4 == Append(e3, EngineCall("execute", optimized, results))
                IN  IF results.kind = "raise"
                    THEN [events |-> e4, out |-> results]
                    ELSE [events |-> e4,
                          out |-> _transform_results(results, results_format, repeats).out]

\* The call against the runtime's engine `eng`:
\* [events |-> the engine calls and metric writes made, in order,
\*  out |-> the value returned or the exception raised].
execute(eng, instructions, results_format, repeats) ==
    IF eng = None
    THEN [events |-> <<>>, out |-> NoEngineError]
    ELSE
    LET resolved == resolve_instructions(instructions)
    IN  IF no_instructions(resolved)
        THEN [events |-> <<>>, out |-> NoInstructionsError]
        ELSE
        LET optimized == EngineOptimize(eng, resolved)
            e1 == <<EngineCall("optimize", resolved, optimized)>>
        IN  IF optimized.kind = "raise"
            THEN [events |-> e1, out |-> optimized]
            ELSE
            LET validated == EngineValidate(eng, optimized)
                e2 == Append(e1, EngineCall("validate", optimized, validated))
            IN  IF validated.kind = "raise"
                THEN [events |-> e2, out |-> validated]
                ELSE
                LET e3 == Append(e2, record_metric(OptimizedInstructionCount,
                                                   Len(optimized.items)))
                    results == EngineExecute(eng, optimized)
                    e4 == Append(e3, EngineCall("execute", optimized, results))
                IN  IF results.kind = "raise"
                    THEN [events |-> e4, out |-> results]
                    ELSE [events |-> e4,
                          out |-> _transform_results(results, results_format, repeats).out]

----------------------------------------------------------------------------
(* instructions.py: QuantumInstruction, Synchronize, PhaseReset *)

\* devices: pulse channels, a qubit and its channels, and a component that is
\* neither (an Acquire is a QuantumComponent but no PulseChannel)
PulseChannels == {"A", "B", "C"}
Qubits == {"Q"}
OtherComponents == {"acquire"}

get_all_channels(qubit) == <<"A", "B">>

IsPulseChannel(x) == x \in PulseChannels
IsQubit(x) == x \in Qubits
IsQuantumComponent(x) == x \in PulseChannels \cup Qubits \cup OtherComponents

\* an argument that is not a list: one device, or another instruction
Single(x) == [kind |-> "single", v |-> x]
InstRef(i) == [kind |-> "inst", id |-> i]

Range(s) == {s[i] : i \in 1..Len(s)}

\* `if x not in self.quantum_targets: self.quantum_targets.append(x)`, always appending
append_always(quantum_targets, target) == Append(quantum_targets, target)

\* `if x not in self.quantum_targets: self.quantum_targets.append(x)`
append_unique(quantum_targets, target) ==
    IF target \in Range(quantum_targets)
    THEN quantum_targets
    ELSE Append(quantum_targets, target)

\* `if not isinstance(x, List): x = [x]`; the members are device names, or
\* "instruction" for the one instruction given in place of a device
as_list(arg) ==
    IF arg.kind = "list" THEN arg.items
    ELSE IF arg.kind = "inst" THEN <<"instruction">>
    ELSE <<arg.v>>

RECURSIVE expand_qubits(_)
\* [chan for val in channels
\*       for chan in (val.get_all_channels() if isinstance(val, Qubit) else [val])]
expand_qubits(members) ==
    IF members = <<>> THEN <<>>
    ELSE (IF IsQubit(Head(members))
          THEN get_all_channels(Head(members))
          ELSE <<Head(members)>>) \o expand_qubits(Tail(members))

RECURSIVE add_each(_, _, _)
\* the loop of add_channels over the expanded members:
\* [quantum_targets |-> the list when the loop ends, raised |-> whether it raised,
\*  offered |-> the members the loop passed to the list]
add_each(quantum_targets, members, offered) ==
    IF members = <<>>
    THEN [quantum_targets |-> quantum_targets, raised |-> FALSE, offered |-> offered]
    ELSE IF ~IsPulseChannel(Head(members))
    THEN [quantum_targets |-> quantum_targets, raised |-> TRUE, offered |-> offered]
    ELSE add_each(append_unique(quantum_targets, Head(members)), Tail(members),
                  Append(offered, Head(members)))

\* Synchronize.add_channels / PhaseReset.add_channels on the list `quantum_targets`
add_channels(quantum_targets, channels) ==
    add_each(quantum_targets, expand_qubits(as_list(channels)), <<>>)

RECURSIVE unique_targets(_, _)
\* "Quick way to make sure the targets are unique."
unique_targets(quantum_targets, rest) ==
    IF rest = <<>> THEN quantum_targets
    ELSE unique_targets(append_unique(quantum_targets, Head(rest)), Tail(rest))

\* bool(x) of a target: a device is truthy, None and "" are not
TruthyTarget(x) == x \notin {"None", ""}

\* QuantumInstruction.__init__(quantum_targets)
quantum_instruction_init(arg) ==
    LET quantum_targets == IF arg = None THEN <<>> ELSE as_list(arg)
        invalid_targets == SelectSeq(quantum_targets, LAMBDA t : ~IsQuantumComponent(t))
    IN  IF \E i \in 1..Len(invalid_targets) : TruthyTarget(invalid_targets[i])
        THEN [quantum_targets |-> <<>>, raised |-> TRUE, offered |-> <<>>]
        ELSE [quantum_targets |-> unique_targets(<<>>, quantum_targets),
              raised |-> FALSE, offered |-> quantum_targets]

MergeClasses == {"Synchronize", "PhaseReset"}

\* Synchronize.__init__ / PhaseReset.__init__: `super().__init__()`, then
\* `self.add_channels(channels)`
merge_class_init(channels) ==
    add_channels(quantum_instruction_init(None).quantum_targets, channels)

NoInstruction == [cls |-> "none", quantum_targets |-> <<>>]

\* __add__ that extends the left operand in place and returns it
add_in_place(pool, self, other) ==
    LET r == add_channels(pool[self].quantum_targets,
                          IF other.kind = "inst"
                          THEN Lst(pool[other.id].quantum_targets)
                          ELSE other)
    IN  [pool |-> [pool EXCEPT ![self].quantum_targets = r.quantum_targets],
         ret |-> self,
         new |-> [cls |-> pool[self].cls, quantum_targets |-> r.quantum_targets],
         raised |-> r.raised, offered |-> r.offered]

\* __add__ that builds the new instance from the right operand alone
add_right_only(pool, self, other) ==
    LET r == merge_class_init(IF other.kind = "inst"
                              THEN Lst(pool[other.id].quantum_targets)
                              ELSE other)
    IN  [pool |-> pool, ret |-> 0,
         new |-> IF r.raised THEN NoInstruction
                 ELSE [cls |-> pool[self].cls, quantum_targets |-> r.quantum_targets],
         raised |-> r.raised, offered |-> r.offered]

\* Synchronize.__add__ / PhaseReset.__add__ of the instruction pool[self] and
\* `other` (an instruction, InstRef(j), or channels):
\* [pool |-> the instructions afterwards,
\*  ret |-> 0 when a new instance is returned, else the index of the one returned,
\*  new |-> the instruction returned, raised,
\*  offered |-> the members passed to the list of the new instance]
__add__(pool, self, other) ==
    LET cls == pool[self].cls
    IN  IF other.kind = "inst" /\ pool[other.id].cls = cls
        THEN LET r == merge_class_init(Lst(pool[self].quantum_targets
                                            \o pool[other.id].quantum_targets))
             IN  [pool |-> pool, ret |-> 0,
                  new |-> [cls |-> cls, quantum_targets |-> r.quantum_targets],
                  raised |-> FALSE, offered |-> r.offered]
        ELSE LET new_sync == merge_class_init(Lst(pool[self].quantum_targets))
                 r == add_channels(new_sync.quantum_targets, other)
             IN  [pool |-> pool, ret |-> 0,
                  new |-> IF r.raised THEN NoInstruction
                          ELSE [cls |-> cls, quantum_targets |-> r.quantum_targets],
                  raised |-> r.raised,
                  offered |-> new_sync.offered \o r.offered]

----------------------------------------------------------------------------
(* instructions.py: build_generated_name *)

\* np.iinfo(np.int32).max: np.random.randint(Int32Max) draws from 0..Int32Max - 1
Int32Max == 2147483647

\* the draws the model takes
RandInts == {n \in 0..MaxRand : n < Int32Max}

\* existing_names: None, or a set of names
NameSet(S) == [kind |-> "set", names |-> S]

\* prefix.endswith(c)
EndsWith(s, c) == Len(s) > 0 /\ CharAt(s, Len(s)) = c

\* the prefix used as given
normalise_prefix_plain(prefix) ==
    IF prefix = None THEN "" ELSE prefix.s

\* `if prefix is None: prefix = ""`, then
\* `if any(prefix) and not prefix.endswith("_"): prefix = f"{prefix}_"`
normalise_prefix(prefix) ==
    LET p == IF prefix = None THEN "" ELSE prefix.s
    IN  IF p # "" /\ ~EndsWith(p, "_") THEN p \o "_" ELSE p

\* f"{prefix}generated_name_{n}"
variable_name(prefix, n) == prefix \o GeneratedTag \o PyStr(n)

\* `if existing_names is None: existing_names = set()`
names_or_fresh(existing_names) ==
    IF existing_names = None THEN {} ELSE existing_names.names

\* whether the `while variable_name in existing_names` loop ends with the draw n
draw_accepted(existing_names, prefix, n) ==
    variable_name(normalise_prefix(prefix), n) \notin names_or_fresh(existing_names)

\* build_generated_name(existing_names, prefix), n being the draw the loop ends
\* with: [ret |-> the name returned, existing_names |-> the set afterwards]
build_generated_name(existing_names, prefix, n) ==
    LET name == variable_name(normalise_prefix(prefix), n)
    IN  [ret |-> name, existing_names |-> names_or_fresh(existing_names) \cup {name}]

----------------------------------------------------------------------------
(* instructions.py: Acquire.  Times and durations are in microseconds. *)

\* `time or 1.0e-6`
DefaultAcquireTime == 1

\* a waveform given as filter: Pulse.duration is its width, CustomPulse.duration
\* is len(samples) * sample_time
Pulse(width) == [kind |-> "Pulse", duration |-> width]
CustomPulse(duration) == [kind |-> "CustomPulse", duration |-> duration]

\* isinstance(filter, Pulse): Pulse and its subclasses, not CustomPulse
IsPulse(filter) == filter.kind = "Pulse"

FilterNotPulseError == Raise("ValueError: Filter on an acquire has to be a Pulse.")
FilterDurationError ==
    Raise("ValueError: Filter duration must be equal to Acquire duration.")

\* bool(x) of a number, a str or None
TruthyValue(x) ==
    /\ x # None
    /\ x.kind = "num" => x.v # 0
    /\ x.kind = "str" => x.s # ""

\* Acquire.generate_name(existing_names)
generate_name(channel, existing_names, n) ==
    build_generated_name(existing_names, Str(channel), n)

\* Acquire(channel, time, output_variable=..., existing_names=..., filter=...),
\* n being the draw generate_name ends with (mode and delay are stored as given):
\* [out |-> the instruction, or the error raised,
\*  generated |-> the names build_generated_name returned,
\*  existing_names |-> the caller's name set afterwards]
acquire_init(channel, time, output_variable, existing_names, filter, n) ==
    LET quantum_targets == quantum_instruction_init(Single(channel)).quantum_targets
        self_time == IF TruthyValue(time) THEN time.v ELSE DefaultAcquireTime
        generates == ~TruthyValue(output_variable)
        b == generate_name(channel, existing_names, n)
    IN  [out |-> IF filter # None /\ ~IsPulse(filter) THEN FilterNotPulseError
                 ELSE IF filter # None /\ filter.duration # self_time
                 THEN FilterDurationError
                 ELSE [kind |-> "Acquire", quantum_targets |-> quantum_targets,
                       time |-> self_time, filter |-> filter,
                       output_variable |-> IF generates THEN b.ret
                                           ELSE output_variable.s],
         generated |-> IF generates THEN <<b.ret>> ELSE <<>>,
         existing_names |-> IF generates THEN b.existing_names
                            ELSE names_or_fresh(existing_names)]

----------------------------------------------------------------------------
(* instructions.py: SweepValue, Sweep *)

SweepValue(name, value) == [name |-> name, value |-> value]

SweepLengthError == Raise("ValueError: Sweep variables have inconsistent lengths.")

\* variables[name] = value on a dict kept as its items in insertion order: a
\* key already present keeps its place and takes the new value
dict_set(variables, name, value) ==
    IF \E i \in 1..Len(variables) : variables[i].name = name
    THEN [i \in 1..Len(variables) |->
             IF variables[i].name = name THEN SweepValue(name, value) ELSE variables[i]]
    ELSE Append(variables, SweepValue(name, value))

RECURSIVE sweep_variables(_, _)
\* {op.name: op.value for op in operations}
sweep_variables(variables, operations) ==
    IF operations = <<>> THEN variables
    ELSE sweep_variables(dict_set(variables, Head(operations).name,
                                  Head(operations).value),
                         Tail(operations))

\* Sweep.__init__ without the check of the lengths
sweep_init_unchecked(operations) ==
    LET ops == IF operations = None THEN <<>>
               ELSE IF operations.kind # "list" THEN <<operations.v>>
               ELSE operations.items
    IN  [kind |-> "Sweep", variables |-> sweep_variables(<<>>, ops)]

\* Sweep(operations): the instruction, or the error raised
sweep_init(operations) ==
    LET ops == IF operations = None THEN <<>>
               ELSE IF operations.kind # "list" THEN <<operations.v>>
               ELSE operations.items
        variables == sweep_variables(<<>>, ops)
        sweep_lengths == [i \in 1..Len(variables) |-> Len(variables[i].value)]
    IN  IF Cardinality(Range(sweep_lengths)) > 1
        THEN SweepLengthError
        ELSE [kind |-> "Sweep", variables |-> variables]

\* Sweep.length
sweep_length(sweep) ==
    IF sweep.variables = <<>> THEN 0 ELSE Len(sweep.variables[1].value)

----------------------------------------------------------------------------
(* State *)

NotCalled == [op |-> "none"]

InitRuntime ==
    /\ metrics = <<>>
    /\ calls = 0
    /\ lastExec = NotCalled
    /\ insts = <<>>
    /\ nops = 0
    /\ lastOp = NotCalled
    /\ shared_names = {}
    /\ returned = <<>>

\* the arguments of one direct call of a function of the result transformation
InitTransform ==
    /\ engine = "engine"
    /\ InitRuntime
    /\ pending \in {[op |-> "_binary_count", args |-> c] : c \in CountCalls}
                    \cup {[op |-> "_transform_results", args |-> c] : c \in TransformCalls}
    /\ lastCall = NotCalled

\* a direct call of runtime._binary_count
BinaryCountCall ==
    /\ pending.op = "_binary_count"
    /\ lastCall' = [op |-> "_binary_count",
                    results_list |-> pending.args[1], repeats |-> pending.args[2],
                    out |-> _binary_count(pending.args[1], pending.args[2])]
    /\ pending' = NotCalled
    /\ UNCHANGED <<engine, metrics, calls, lastExec, insts, nops, lastOp, shared_names, returned>>

\* a direct call of QuantumRuntime._transform_results
TransformResultsCall ==
    /\ pending.op = "_transform_results"
    /\ lastCall' = [op |-> "_transform_results", results |-> pending.args[1],
                    format_flags |-> pending.args[2], repeats |-> pending.args[3],
                    ret |-> _transform_results(pending.args[1], pending.args[2],
                                               pending.args[3])]
    /\ pending' = NotCalled
    /\ UNCHANGED <<engine, metrics, calls, lastExec, insts, nops, lastOp, shared_names, returned>>

NextTransform == BinaryCountCall \/ TransformResultsCall

SpecTransform == InitTransform /\ [][NextTransform]_vars

----------------------------------------------------------------------------
(* Calls of QuantumRuntime.execute *)

InstrMembers == {"inst", "None"}

InstrLists == {Lst(s) : s \in SeqsUpTo(InstrMembers, MaxInstr)}

ExecInputs == {None} \cup InstrLists \cup {Builder(i) : i \in {None} \cup InstrLists}

ExecFlags == {NoFlags, Flags({BinaryCount})}

ExecRepeats == {Num(2)}

\* a runtime as constructed, with or without an engine
InitExec ==
    /\ engine \in {None} \cup Engines
    /\ InitRuntime
    /\ pending = NotCalled
    /\ lastCall = NotCalled

\* the metric writes among the events of a call
MetricWrites(events) == SelectSeq(events, LAMBDA e : e.op = "record_metric")

Execute ==
    /\ calls < MaxCalls
    /\ \E instructions \in ExecInputs, results_format \in ExecFlags, repeats \in ExecRepeats :
           LET r == execute(engine, instructions, results_format, repeats)
           IN  /\ lastExec' = [op |-> "execute", instructions |-> instructions,
                               results_format |-> results_format, repeats |-> repeats,
                               events |-> r.events, out |-> r.out]
               /\ metrics' = metrics \o MetricWrites(r.events)
    /\ calls' = calls + 1
    /\ UNCHANGED <<engine, pending, lastCall, insts, nops, lastOp, shared_names, returned>>

NextExec == Execute

SpecExec == InitExec /\ [][NextExec]_vars

----------------------------------------------------------------------------
(* Operations on instructions.  `insts` holds the Synchronize and PhaseReset *)
(* instructions the program keeps; lastOp.result is the instruction the last *)
(* operation built or changed.                                               *)

\* the channel arguments given to constructors, add_channels and +
ChannelArgs ==
    {Single("C"), Single("Q"),
     Lst(<<"A", "B">>), Lst(<<"B", "C", "B">>), Lst(<<"A", "acquire", "C">>)}

\* the targets given to QuantumInstruction(...)
TargetArgs ==
    {None, Single("A"), Single("text"), Lst(<<"A", "Q", "A", "acquire">>),
     Lst(<<"B", "None", "B">>)}

InitInstr ==
    /\ engine = None
    /\ InitRuntime
    /\ pending = NotCalled
    /\ lastCall = NotCalled

Op(op, self, other, r, cls) ==
    [op |-> op, self |-> self, other |-> other, raised |-> r.raised,
     offered |-> r.offered,
     result |-> IF r.raised THEN NoInstruction
                ELSE [cls |-> cls, quantum_targets |-> r.quantum_targets]]

\* QuantumInstruction(targets) of a class without add_channels (Id, Delay, ...)
NewQuantumInstruction ==
    /\ nops < MaxOps
    /\ nops' = nops + 1
    /\ \E arg \in TargetArgs :
           lastOp' = Op("__init__", 0, 0, quantum_instruction_init(arg), "QuantumInstruction")
    /\ UNCHANGED <<engine, metrics, calls, lastExec, pending, lastCall, insts, shared_names, returned>>

\* Synchronize(channels) or PhaseReset(channels)
NewMergeClass ==
    /\ nops < MaxOps
    /\ nops' = nops + 1
    /\ \E cls \in MergeClasses, arg \in ChannelArgs :
           LET r == merge_class_init(arg)
           IN  /\ insts' = IF r.raised THEN insts
                           ELSE Append(insts, [cls |-> cls,
                                               quantum_targets |-> r.quantum_targets])
               /\ lastOp' = Op("__init__", 0, 0, r, cls)
    /\ UNCHANGED <<engine, metrics, calls, lastExec, pending, lastCall, shared_names, returned>>

\* insts[i].add_channels(channels): the list is extended in place, also when the
\* call raises part-way
AddChannels ==
    /\ nops < MaxOps
    /\ nops' = nops + 1
    /\ \E i \in 1..Len(insts), arg \in ChannelArgs :
           LET r == add_channels(insts[i].quantum_targets, arg)
           IN  /\ insts' = [insts EXCEPT ![i].quantum_targets = r.quantum_targets]
               /\ lastOp' = [Op("add_channels", i, 0, r, insts[i].cls) EXCEPT
                                !.result = insts'[i]]
    /\ UNCHANGED <<engine, metrics, calls, lastExec, pending, lastCall, shared_names, returned>>

\* insts[i] + other, other an instruction or channels; the caller may keep the
\* instruction returned
Merge ==
    /\ nops < MaxOps
    /\ nops' = nops + 1
    /\ \E i \in 1..Len(insts), keep \in BOOLEAN :
       \E other \in {InstRef(j) : j \in 1..Len(insts)} \cup ChannelArgs
                        \cup {InstRef(0)} :
           LET pool == [j \in 0..Len(insts) |->
                           IF j = 0 THEN [cls |-> "QuantumInstruction",
                                          quantum_targets |-> <<"A">>]
                           ELSE insts[j]]
               r == __add__(pool, i, other)
               kept == keep /\ ~r.raised /\ r.ret = 0
               after == [j \in 1..Len(insts) |-> r.pool[j]]
           IN  /\ insts' = IF kept THEN Append(after, r.new) ELSE after
               /\ lastOp' = [op |-> "__add__", self |-> i,
                             other |-> IF other.kind = "inst" THEN other.id ELSE 0,
                             raised |-> r.raised, offered |-> r.offered,
                             result |-> r.new, ret |-> r.ret,
                             same |-> other.kind = "inst" /\ pool[other.id].cls = pool[i].cls]
    /\ UNCHANGED <<engine, metrics, calls, lastExec, pending, lastCall, shared_names, returned>>

NextInstr == NewQuantumInstruction \/ NewMergeClass \/ AddChannels \/ Merge

SpecInstr == InitInstr /\ [][NextInstr]_vars

----------------------------------------------------------------------------
(* Name generation and the construction of Acquire and Sweep.  The callers   *)
(* share one name set, shared_names, and pass it, or no set, as            *)
(* existing_names.                                                         *)

\* the prefixes given to build_generated_name
Prefixes == {None, Str(""), Str("q0"), Str("q0_"), Str("q\n")}

AcquireChannels == {"A"}
AcquireTimes == {None, Num(0), Num(1)}
AcquireFilters == {None, Pulse(0), Pulse(1), Pulse(2), CustomPulse(1)}
OutputVariables == {None, Str("out")}

SweepNames == {"a", "b"}
SweepItems == {1}
SweepValues ==
    {SweepValue(name, value) : name \in SweepNames,
                               value \in SeqsUpTo(SweepItems, MaxSweepLen)}
SweepArgs ==
    {None} \cup {Single(v) : v \in SweepValues}
           \cup {Lst(l) : l \in SeqsUpTo(SweepValues, MaxSweepValues)}

InitBuild ==
    /\ engine = None
    /\ InitRuntime
    /\ pending = NotCalled
    /\ lastCall = NotCalled

\* the existing_names argument of a call
NamesArg(share) == IF share THEN NameSet(shared_names) ELSE None

\* build_generated_name(existing_names, prefix)
BuildGeneratedName ==
    /\ nops < MaxBuilds
    /\ nops' = nops + 1
    /\ \E prefix \in Prefixes, n \in RandInts, share \in BOOLEAN :
           LET r == build_generated_name(NamesArg(share), prefix, n)
           IN  /\ draw_accepted(NamesArg(share), prefix, n)
               /\ lastOp' = [op |-> "build_generated_name", shared |-> share,
                             prefix |-> prefix, before |-> shared_names,
                             ret |-> r.ret, after |-> r.existing_names]
               /\ shared_names' = IF share THEN r.existing_names ELSE shared_names
               /\ returned' = IF share THEN Append(returned, r.ret) ELSE returned
    /\ UNCHANGED <<engine, metrics, calls, lastExec, pending, lastCall, insts>>

\* Acquire(channel, time, output_variable=..., existing_names=..., filter=...)
NewAcquire ==
    /\ nops < MaxBuilds
    /\ nops' = nops + 1
    /\ \E channel \in AcquireChannels, time \in AcquireTimes,
          output_variable \in OutputVariables, filter \in AcquireFilters,
          n \in RandInts, share \in BOOLEAN :
           LET r == acquire_init(channel, time, output_variable, NamesArg(share),
                                 filter, n)
           IN  /\ TruthyValue(output_variable)
                    \/ draw_accepted(NamesArg(share), Str(channel), n)
               /\ lastOp' = [op |-> "Acquire", shared |-> share, time |-> time,
                             output_variable |-> output_variable, filter |-> filter,
                             before |-> shared_names, out |-> r.out]
               /\ shared_names' = IF share THEN r.existing_names ELSE shared_names
               /\ returned' = IF share THEN returned \o r.generated ELSE returned
    /\ UNCHANGED <<engine, metrics, calls, lastExec, pending, lastCall, insts>>

\* Sweep(operations)
NewSweep ==
    /\ nops < MaxBuilds
    /\ nops' = nops + 1
    /\ \E operations \in SweepArgs :
           lastOp' = [op |-> "Sweep", operations |-> operations,
                      out |-> sweep_init(operations)]
    /\ UNCHANGED <<engine, metrics, calls, lastExec, pending, lastCall, insts,
                   shared_names, returned>>

NextBuild == BuildGeneratedName \/ NewAcquire

SpecBuild == InitBuild /\ [][NextBuild]_vars

NextSweep == NewSweep

SpecSweep == InitBuild /\ [][NextSweep]_vars

----------------------------------------------------------------------------
(* Properties of the result transformation (SpecTransform) *)

RECURSIVE SumCounts(_, _)
SumCounts(f, S) ==
    IF S = {} THEN 0
    ELSE LET k == CHOOSE x \in S : TRUE IN f[k] + SumCounts(f, S \ {k})

CountCalled == lastCall.op = "_binary_count"
TransformCalled == lastCall.op = "_transform_results"

ExampleTally == Dict("01" :> 1 @@ "10" :> 1 @@ "00" :> 1 @@ "11" :> 1)

\* The counts returned by _binary_count are the tallies of the shots' bitstrings,
\* and sum to repeats.
CountsAreTallies ==
    (CountCalled /\ lastCall.out.kind = "dict") =>
        LET register == normalise_register(_binary(lastCall.results_list), lastCall.repeats)
            shots == 0..(lastCall.repeats - 1)
            counts == lastCall.out.counts
        IN  /\ DOMAIN counts = {shot_key(register, i) : i \in shots}
            /\ \A k \in DOMAIN counts :
                   counts[k] = Cardinality({i \in shots : shot_key(register, i) = k})
            /\ SumCounts(counts, DOMAIN counts) = lastCall.repeats

CalledOn(results_list, repeats) ==
    CountCalled /\ lastCall.results_list = results_list /\ lastCall.repeats = repeats

\* C3 as stated: binary counting tallies the bitstrings of the shots 0..repeats-1,
\* the counts sum to repeats, and the list [[0,1],[1,0],[0,0],[1,1]] with repeats=4
\* gives {"01":1,"10":1,"00":1,"11":1}.
C3_Original ==
    /\ CountsAreTallies
    /\ CalledOn(ShotMajorExample, ExampleRepeats) => lastCall.out = ExampleTally

\* C3 amended: binary counting tallies the bitstrings of the shots 0..repeats-1 and
\* the counts it returns sum to repeats; the two-channel register given one list
\* per channel, [[0,1,0,1],[1,0,0,1]], with repeats=4 gives
\* {"01":1,"10":1,"00":1,"11":1}, and the list of four per-shot pairs
\* [[0,1],[1,0],[0,0],[1,1]] with repeats=4 raises IndexError.
C3_BinaryCount ==
    /\ CountsAreTallies
    /\ CalledOn(ChannelMajorExample, ExampleRepeats) => lastCall.out = ExampleTally
    /\ CalledOn(ShotMajorExample, ExampleRepeats) => lastCall.out = Raise("IndexError")

C3_Witness ==
    /\ CalledOn(ChannelMajorExample, ExampleRepeats)
    /\ lastCall.out = ExampleTally

AllSynthetic(m) == \A i \in 1..Len(m.entries) : is_generated_name(m.entries[i].key)

\* C4: the Dynamic Structure Return stage on a non-empty mapping returns the mapping
\* unchanged if some name is not synthetic, the single value if there is exactly one
\* variable and its name is synthetic, and otherwise the sequence of all values in
\* mapping-iteration order; its result is the result of the call.
C4_DynamicStructure ==
    TransformCalled =>
        \A k \in 1..Len(lastCall.ret.stages) :
            LET st == lastCall.ret.stages[k]
                n == Len(st.input.entries)
            IN  (st.stage = DynamicStructureReturn /\ n > 0) =>
                    /\ ~AllSynthetic(st.input) => st.output = st.input
                    /\ (AllSynthetic(st.input) /\ n = 1) =>
                           st.output = st.input.entries[1].value
                    /\ (AllSynthetic(st.input) /\ n >= 2) =>
                           /\ st.output.kind \in {"list", "ndarray"}
                           /\ st.output.items = Values(st.input)
                    /\ lastCall.ret.out = st.output

C4_Witness ==
    /\ TransformCalled
    /\ \E k \in 1..Len(lastCall.ret.stages) :
           LET st == lastCall.ret.stages[k]
           IN  /\ st.stage = DynamicStructureReturn
               /\ Len(st.input.entries) = 2
               /\ AllSynthetic(st.input)
               /\ lastCall.ret.out = Lst(Values(st.input))

StageOrder == <<BinaryCount, SquashBinaryResultArrays, DynamicStructureReturn>>

IsPrefix(s, t) == Len(s) <= Len(t) /\ SubSeq(t, 1, Len(s)) = s

\* the result of one stage on its input
StageResult(stage, input, repeats) ==
    IF stage = BinaryCount
    THEN LET count(val) == _binary_count(val, repeats) IN MapValues(input, count)
    ELSE IF stage = SquashBinaryResultArrays
    THEN MapValues(input, squash_binary)
    ELSE simplify_results(input)

\* C5: on a non-empty mapping the stages that run are those whose flag is set (only
\* DynamicStructureReturn when no flags are supplied), in the order Binary Count,
\* Squash Binary Arrays, Dynamic Structure Return (up to the first stage that
\* raises); each consumes the previous stage's output, so with BinaryCount set the
\* squash stage receives count mappings; the last output is the result.
C5_StageOrder ==
    (TransformCalled /\ Len(lastCall.results.entries) > 0) =>
        LET flags == IF lastCall.format_flags = NoFlags
                     THEN {DynamicStructureReturn}
                     ELSE lastCall.format_flags.set
            reps == IF lastCall.repeats = None THEN DefaultRepeats ELSE lastCall.repeats.v
            st == lastCall.ret.stages
            ran == [k \in 1..Len(st) |-> st[k].stage]
            expected == SelectSeq(StageOrder, LAMBDA f : f \in flags)
        IN  /\ IF lastCall.ret.out.kind = "raise"
               THEN IsPrefix(ran, expected) /\ ran # <<>>
               ELSE ran = expected
            /\ \A k \in 1..Len(st) :
                   /\ st[k].input = IF k = 1 THEN lastCall.results ELSE st[k - 1].output
                   /\ st[k].output = StageResult(st[k].stage, st[k].input, reps)
                   /\ (st[k].stage = SquashBinaryResultArrays /\ BinaryCount \in flags) =>
                          \A i \in 1..Len(st[k].input.entries) :
                              st[k].input.entries[i].value.kind = "dict"
            /\ lastCall.ret.out = IF st = <<>> THEN lastCall.results ELSE st[Len(st)].output

C5_Witness ==
    /\ TransformCalled
    /\ lastCall.format_flags = Flags({BinaryCount, SquashBinaryResultArrays})
    /\ lastCall.repeats = Num(2)
    /\ lastCall.results = Map(<<Entry("q0", Bit2(0, 1))>>)
    /\ lastCall.ret.out = Map(<<Entry("q0", None)>>)

\* C6: _transform_results on a mapping with no entries returns an empty sequence,
\* whatever the flags (none included) and repeats (absent included).
C6_EmptyResults ==
    (TransformCalled /\ Len(lastCall.results.entries) = 0) =>
        /\ lastCall.ret.out = Lst(<<>>)
        /\ lastCall.ret.stages = <<>>

C6_Witness ==
    /\ TransformCalled
    /\ Len(lastCall.results.entries) = 0
    /\ lastCall.format_flags = Flags(ResultsFormatting)
    /\ lastCall.repeats = None
    /\ lastCall.ret.out = Lst(<<>>)

----------------------------------------------------------------------------
(* Properties of QuantumRuntime.execute (SpecExec) *)

ExecuteCalled == lastExec.op = "execute"

EngineOps == <<"optimize", "validate", "execute">>

\* the engine calls among the events of a call
EngineCalls(events) ==
    SelectSeq(events, LAMBDA e : e.op \in {"optimize", "validate", "execute"})

\* C1: in every execute call the engine operations happen in the order optimize,
\* validate, execute, each at most once; validate and engine.execute receive the
\* sequence optimize returned, and engine.execute is only invoked after validate
\* has returned without raising.
C1_EngineOrder ==
    ExecuteCalled =>
        LET c == EngineCalls(lastExec.events)
            ops == [k \in 1..Len(c) |-> c[k].op]
        IN  /\ IsPrefix(ops, EngineOps)
            /\ Len(c) >= 2 => (c[1].ret.kind # "raise" /\ c[2].arg = c[1].ret)
            /\ Len(c) >= 3 => (c[2].ret.kind # "raise" /\ c[3].arg = c[1].ret)

C1_Witness ==
    /\ ExecuteCalled
    /\ LET c == EngineCalls(lastExec.events)
       IN  /\ Len(c) = 3
           /\ c[1].ret # c[1].arg
           /\ c[2].arg = c[1].ret
           /\ c[3].arg = c[1].ret

\* the sequence the call resolves: given directly, or a builder's .instructions
Resolved(instructions) ==
    IF instructions.kind = "builder" THEN instructions.instructions ELSE instructions

AbsentOrEmpty(instructions) ==
    Resolved(instructions) = None \/ Resolved(instructions).items = <<>>

\* C2: execute raises the no-engine error when the runtime has no engine, and (an
\* engine being attached) the no-instructions error when the resolved sequence is
\* absent or empty; in both cases no engine operation is invoked and no metric is
\* recorded.
C2_Errors ==
    /\ [](ExecuteCalled =>
            /\ engine = None =>
                   (lastExec.out = NoEngineError /\ lastExec.events = <<>>)
            /\ (engine # None /\ AbsentOrEmpty(lastExec.instructions)) =>
                   (lastExec.out = NoInstructionsError /\ lastExec.events = <<>>))
    /\ [][(calls' = calls + 1
            /\ (engine = None \/ AbsentOrEmpty(lastExec'.instructions))) =>
               metrics' = metrics]_vars

C2_Witness ==
    /\ ExecuteCalled
    /\ engine # None
    /\ lastExec.instructions = Builder(Lst(<<>>))
    /\ lastExec.out = NoInstructionsError
    /\ calls = MaxCalls

ValidateReturned(events) ==
    \E k \in 1..Len(events) : events[k].op = "validate" /\ events[k].ret.kind # "raise"

\* C7 as stated: every execute call writes exactly one metric, so the number of
\* metric writes equals the number of execute calls.
C7_Original == Len(metrics) = calls

\* C7 amended: an execute call in which optimize and validate return without raising
\* writes exactly one metric, the optimized instruction count, whose value is the
\* length of the sequence optimize returned; a call that raises before that writes
\* none; so the metric writes never outnumber the execute calls.
C7_MetricPerCall ==
    /\ [](Len(metrics) <= calls)
    /\ [][calls' = calls + 1 =>
            LET ev == lastExec'.events
            IN  IF ValidateReturned(ev)
                THEN metrics' = Append(metrics,
                                       record_metric(OptimizedInstructionCount,
                                                     Len(ev[1].ret.items)))
                ELSE metrics' = metrics]_vars

C7_Witness ==
    /\ ExecuteCalled
    /\ calls = 2
    /\ Len(metrics) = 1
    /\ ValidateReturned(lastExec.events)
    /\ metrics[1].value # Len(Resolved(lastExec.instructions).items)

----------------------------------------------------------------------------
(* Properties of the instructions' target lists (SpecInstr) *)

NoDuplicates(s) == \A i, j \in 1..Len(s) : s[i] = s[j] => i = j

FirstIndex(s, x) == CHOOSE i \in 1..Len(s) : s[i] = x /\ \A j \in 1..(i - 1) : s[j] # x

\* t lists the members of s once each, ordered by their first occurrence in s
InFirstSeenOrder(t, s) ==
    /\ NoDuplicates(t)
    /\ Range(t) = Range(s)
    /\ \A a, b \in 1..Len(t) : a < b => FirstIndex(s, t[a]) < FirstIndex(s, t[b])

Operated == lastOp.op # "none"

\* C8: after construction, add_channels and + merges, the target list of every
\* instruction has no duplicates and lists the targets in first-seen order: a new
\* instance lists the targets it was offered by first occurrence, and add_channels
\* keeps the list and appends the new targets by first occurrence.
C8_UniqueTargets ==
    /\ [](/\ \A i \in 1..Len(insts) : NoDuplicates(insts[i].quantum_targets)
          /\ (Operated /\ ~lastOp.raised) => NoDuplicates(lastOp.result.quantum_targets)
          /\ (lastOp.op \in {"__init__", "__add__"} /\ ~lastOp.raised) =>
                 InFirstSeenOrder(lastOp.result.quantum_targets, lastOp.offered))
    /\ [][(nops' = nops + 1 /\ lastOp'.op = "add_channels") =>
             InFirstSeenOrder(insts'[lastOp'.self].quantum_targets,
                              insts[lastOp'.self].quantum_targets \o lastOp'.offered)]_vars

C8_Witness ==
    /\ lastOp.op = "__add__"
    /\ ~lastOp.raised
    /\ ~NoDuplicates(lastOp.offered)
    /\ lastOp.result.quantum_targets = <<"A", "B", "C">>

\* the instruction a + b for two instructions of one class
Merged(a, b) == __add__(<<a, b>>, 1, InstRef(2)).new

Targets(inst) == Range(inst.quantum_targets)

\* C9: the + merge of two Synchronize (or two PhaseReset) instructions yields an
\* instruction whose target set is the union of the operands' target sets; the
\* set does not depend on the order of the operands nor on how a chain of merges
\* is parenthesised.
C9_MergeIsUnion ==
    /\ (lastOp.op = "__add__" /\ lastOp.same) =>
           /\ ~lastOp.raised
           /\ lastOp.result.cls = insts[lastOp.self].cls
           /\ Targets(lastOp.result) =
                  Targets(insts[lastOp.self]) \cup Targets(insts[lastOp.other])
    /\ \A i, j, k \in 1..Len(insts) :
           (insts[i].cls = insts[j].cls /\ insts[j].cls = insts[k].cls) =>
               /\ Targets(Merged(insts[i], insts[j])) = Targets(Merged(insts[j], insts[i]))
               /\ Targets(Merged(Merged(insts[i], insts[j]), insts[k])) =
                      Targets(Merged(insts[i], Merged(insts[j], insts[k])))

C9_Witness ==
    /\ lastOp.op = "__add__"
    /\ lastOp.same
    /\ insts[lastOp.self] = [cls |-> "Synchronize", quantum_targets |-> <<"A", "B">>]
    /\ insts[lastOp.other] = [cls |-> "Synchronize", quantum_targets |-> <<"B", "C">>]
    /\ Targets(lastOp.result) = {"A", "B", "C"}
    /\ Len(lastOp.result.quantum_targets) = 3

\* C10: the + merge returns a new instance and leaves the target lists of the
\* instructions that exist unchanged, whether the right operand is an instruction
\* or channels, and also when the merge raises.
C10_MergeIsPure ==
    [][(nops' = nops + 1 /\ lastOp'.op = "__add__") =>
          /\ \A i \in 1..Len(insts) : insts'[i] = insts[i]
          /\ ~lastOp'.raised => lastOp'.ret = 0]_vars

C10_Witness ==
    /\ lastOp.op = "__add__"
    /\ lastOp.other = 0
    /\ ~lastOp.raised
    /\ lastOp.ret = 0
    /\ lastOp.result.quantum_targets # insts[lastOp.self].quantum_targets

----------------------------------------------------------------------------
(* Properties of name generation and of Acquire (SpecBuild) and of Sweep   *)
(* (SpecSweep)                                                              *)

BuildCalled == lastOp.op = "build_generated_name"
AcquireCalled == lastOp.op = "Acquire"
SweepCalled == lastOp.op = "Sweep"

\* C11: after N calls of build_generated_name against one shared, initially
\* empty name set, the N names returned are pairwise distinct, each satisfies
\* is_generated_name, and the set holds exactly those names; each call returns
\* a name that was not in the set before the call and is in it afterwards.
C11_Original ==
    /\ NoDuplicates(returned)
    /\ \A i \in 1..Len(returned) : is_generated_name(returned[i])
    /\ shared_names = Range(returned)
    /\ (BuildCalled /\ lastOp.shared) =>
           /\ lastOp.ret \notin lastOp.before
           /\ lastOp.ret \in shared_names

\* the text of the prefix argument
PrefixText(prefix) == IF prefix = None THEN "" ELSE prefix.s

\* the decimal digits of a non-negative 32-bit integer the model draws
IsDrawText(digits) == \E n \in RandInts : n >= 0 /\ n <= Int32Max /\ digits = PyStr(n)

\* name is `head`, then `sep`, then "generated_name_", then the digits of a draw
NameIs(name, head, sep) ==
    LET fixed == head \o sep \o GeneratedTag
    IN  /\ Len(name) > Len(fixed)
        /\ SubSeq(name, 1, Len(fixed)) = fixed
        /\ IsDrawText(SubSeq(name, Len(fixed) + 1, Len(name)))

\* C12 as stated: the name returned is the prefix, immediately followed by
\* "generated_name_" and the digits of a non-negative 32-bit integer, with
\* nothing inserted between the prefix and "generated_name_".
C12_Original ==
    BuildCalled => NameIs(lastOp.ret, PrefixText(lastOp.prefix), "")

\* C12 amended: the name returned is the prefix, then "_" when the prefix is not
\* empty and does not end in "_" (nothing otherwise), then "generated_name_",
\* then the digits of a non-negative 32-bit integer.
C12_NameFormat ==
    BuildCalled =>
        LET p == PrefixText(lastOp.prefix)
        IN  IF Len(p) = 0 \/ SubSeq(p, Len(p), Len(p)) = "_"
            THEN NameIs(lastOp.ret, p, "")
            ELSE NameIs(lastOp.ret, p, "_")

C12_Witness ==
    /\ BuildCalled
    /\ lastOp.prefix = Str("q0")
    /\ lastOp.ret = "q0_generated_name_1"
    /\ lastOp.ret \in shared_names

\* the acquisition time the caller asked for: 1 microsecond when none is given
AskedTime(time) == IF time = None THEN DefaultAcquireTime ELSE time.v

Constructed == lastOp.out.kind = "Acquire"

\* C13: Acquire construction with a filter succeeds if and only if the filter
\* is a Pulse whose duration equals the acquisition time the caller asked for
\* (1 microsecond when no time is given), and raises the filter-mismatch error
\* otherwise; every constructed Acquire with a filter has filter.duration = time.
C13_Original ==
    (AcquireCalled /\ lastOp.filter # None) =>
        /\ Constructed <=> /\ IsPulse(lastOp.filter)
                           /\ lastOp.filter.duration = AskedTime(lastOp.time)
        /\ ~Constructed => lastOp.out \in {FilterNotPulseError, FilterDurationError}
        /\ Constructed => lastOp.out.filter.duration = lastOp.out.time

\* the SweepValues supplied to the last Sweep construction, in order
Supplied ==
    IF lastOp.operations = None THEN <<>>
    ELSE IF lastOp.operations.kind = "list" THEN lastOp.operations.items
    ELSE <<lastOp.operations.v>>

Lengths(values) == {Len(values[i].value) : i \in 1..Len(values)}

\* C14 as stated: Sweep construction succeeds if and only if all the supplied
\* value sequences have the same length, and raises the length-mismatch error
\* otherwise; on success length is that common length, 0 when none is supplied.
C14_Original ==
    SweepCalled =>
        /\ lastOp.out.kind = "Sweep" <=> Cardinality(Lengths(Supplied)) <= 1
        /\ lastOp.out.kind # "Sweep" => lastOp.out = SweepLengthError
        /\ lastOp.out.kind = "Sweep" =>
               \/ Supplied = <<>> /\ sweep_length(lastOp.out) = 0
               \/ Lengths(Supplied) = {sweep_length(lastOp.out)}

\* the SweepValues a Sweep keeps: for each name, the last one supplied
Kept ==
    {Supplied[i] : i \in {k \in 1..Len(Supplied) :
                             \A j \in (k + 1)..Len(Supplied) :
                                 Supplied[j].name # Supplied[k].name}}

\* C14 amended: Sweep construction succeeds if and only if the value sequences
\* it keeps, one per name and the last one supplied for a name given more than
\* once, all have the same length, and raises the length-mismatch error
\* otherwise; on success length is that common length, 0 when none is supplied.
C14_SweepLength ==
    SweepCalled =>
        LET lengths == {Len(v.value) : v \in Kept}
        IN  /\ lastOp.out.kind = "Sweep" <=> Cardinality(lengths) <= 1
            /\ lastOp.out.kind # "Sweep" => lastOp.out = SweepLengthError
            /\ lastOp.out.kind = "Sweep" =>
                   \/ Supplied = <<>> /\ sweep_length(lastOp.out) = 0
                   \/ lengths = {sweep_length(lastOp.out)}

C14_Witness ==
    /\ SweepCalled
    /\ lastOp.operations = Lst(<<SweepValue("a", <<1, 1>>), SweepValue("a", <<1>>)>>)
    /\ lastOp.out.kind = "Sweep"
    /\ sweep_length(lastOp.out) = 1

\* C15: an Acquire construction that fails leaves the caller-supplied
\* existing_names set exactly as it was before the call.
C15_Original ==
    (AcquireCalled /\ lastOp.out.kind = "raise") => shared_names = lastOp.before

----------------------------------------------------------------------------
(* Properties of add_channels (SpecInstr) *)

\* C16: when add_channels on an existing Synchronize or PhaseReset raises, the
\* target list of the instruction is the same as before the call.
C16_Original ==
    [][(lastOp'.op = "add_channels" /\ lastOp'.raised /\ nops' = nops + 1) =>
           insts' = insts]_vars

====
